---- MODULE Spec2Model ----
(***************************************************************************)
(* A model of the command safety policy engine (safety_guardrails.py).     *)
(*                                                                         *)
(* Text is modelled at the level the code works on it: a Python str is a   *)
(* sequence of one-character strings, and strip, lower, split, the `in`    *)
(* substring test, startswith, re.search and os.path.abspath are computed  *)
(* character by character.                                                 *)
(***************************************************************************)
EXTENDS Naturals, Integers, Sequences, FiniteSets, TLC

(***************************************************************************)
(* Bounds of the model.                                                    *)
(***************************************************************************)
\* the number of words a command is made of
MaxWords == 3
\* the number of segments a path handed to is_path_protected is made of
MaxSegs == 3

(***************************************************************************)
(* Python str operations.                                                  *)
(***************************************************************************)
\* the characters str.strip, str.split and the regex class \s treat as space
Whitespace == {" ", "\t", "\n", "\r"}

UpperToLower ==
    [c \in {"A","B","C","D","E","F","G","H","I","J","K","L","M",
            "N","O","P","Q","R","S","T","U","V","W","X","Y","Z"} |->
       CASE c = "A" -> "a" [] c = "B" -> "b" [] c = "C" -> "c" [] c = "D" -> "d"
         [] c = "E" -> "e" [] c = "F" -> "f" [] c = "G" -> "g" [] c = "H" -> "h"
         [] c = "I" -> "i" [] c = "J" -> "j" [] c = "K" -> "k" [] c = "L" -> "l"
         [] c = "M" -> "m" [] c = "N" -> "n" [] c = "O" -> "o" [] c = "P" -> "p"
         [] c = "Q" -> "q" [] c = "R" -> "r" [] c = "S" -> "s" [] c = "T" -> "t"
         [] c = "U" -> "u" [] c = "V" -> "v" [] c = "W" -> "w" [] c = "X" -> "x"
         [] c = "Y" -> "y" [] c = "Z" -> "z"]

\* str.lower
lower(s) ==
    [i \in 1..Len(s) |-> IF s[i] \in DOMAIN UpperToLower THEN UpperToLower[s[i]] ELSE s[i]]

\* the first index from i on whose character is in S (Len(s) + 1 if none)
RECURSIVE find(_, _, _)
find(s, i, S) == IF i > Len(s) \/ s[i] \in S THEN i ELSE find(s, i + 1, S)

\* the first index from i on whose character is not in S (Len(s) + 1 if none)
RECURSIVE skip(_, _, _)
skip(s, i, S) == IF i > Len(s) \/ s[i] \notin S THEN i ELSE skip(s, i + 1, S)

\* the last index up to i whose character is not in S (0 if none)
RECURSIVE rskip(_, _, _)
rskip(s, i, S) == IF i < 1 \/ s[i] \notin S THEN i ELSE rskip(s, i - 1, S)

\* str.strip()
strip(s) == SubSeq(s, skip(s, 1, Whitespace), rskip(s, Len(s), Whitespace))

\* the words of s from index i on
RECURSIVE split_from(_, _)
split_from(s, i) ==
    LET a == skip(s, i, Whitespace)
        b == find(s, a, Whitespace)
    IN  IF a > Len(s) THEN <<>> ELSE <<SubSeq(s, a, b - 1)>> \o split_from(s, b)

\* str.split(): the words between runs of whitespace
split(s) == split_from(s, 1)

\* p is in s right after index i
match_at(s, i, p) == i + Len(p) <= Len(s) /\ \A k \in 1..Len(p) : s[i + k] = p[k]

\* p in s
contains(s, p) == \E i \in 0..(Len(s) - Len(p)) : match_at(s, i, p)

\* s.startswith(p)
startswith(s, p) == match_at(s, 0, p)

\* re.search of a pattern  pre \s* post  with literal pre and post
search_ws(s, pre, post) ==
    \E i \in 0..(Len(s) - Len(pre)) :
        /\ match_at(s, i, pre)
        /\ \E w \in 0..(Len(s) - i - Len(pre) - Len(post)) :
              /\ \A k \in 1..w : s[i + Len(pre) + k] \in Whitespace
              /\ match_at(s, i + Len(pre) + w, post)

\* sep.join(parts)
RECURSIVE join(_, _)
join(parts, sep) ==
    IF parts = <<>> THEN <<>>
    ELSE IF Len(parts) = 1 THEN parts[1]
    ELSE parts[1] \o sep \o join(Tail(parts), sep)

\* the components of s from index i on
RECURSIVE splitsep_from(_, _, _)
splitsep_from(s, i, seps) ==
    LET b == find(s, i, seps)
    IN  IF b > Len(s) THEN <<SubSeq(s, i, Len(s))>>
        ELSE <<SubSeq(s, i, b - 1)>> \o splitsep_from(s, b + 1, seps)

\* str.split(sep) for the separators seps: empty components are kept
splitsep(s, seps) == splitsep_from(s, 1, seps)

\* s.replace(a, b) for single characters
replace(s, a, b) == [i \in 1..Len(s) |-> IF s[i] = a THEN b ELSE s[i]]

(***************************************************************************)
(* os.path.abspath, as posixpath and as ntpath compute it.  cwd is what    *)
(* os.getcwd() returns at the call.                                        *)
(***************************************************************************)
Dot == <<".">>
DotDot == <<".", ".">>
Slash == <<"/">>
Backslash == <<"\\">>

\* the loop of posixpath.normpath over the components
RECURSIVE posix_comps(_, _, _)
posix_comps(comps, new_comps, initial_slashes) ==
    IF comps = <<>> THEN new_comps
    ELSE LET comp == Head(comps)
         IN  IF comp = <<>> \/ comp = Dot
               THEN posix_comps(Tail(comps), new_comps, initial_slashes)
             ELSE IF \/ comp # DotDot
                     \/ (initial_slashes = 0 /\ new_comps = <<>>)
                     \/ (new_comps # <<>> /\ new_comps[Len(new_comps)] = DotDot)
               THEN posix_comps(Tail(comps), Append(new_comps, comp), initial_slashes)
             ELSE IF new_comps # <<>>
               THEN posix_comps(Tail(comps), SubSeq(new_comps, 1, Len(new_comps) - 1),
                                initial_slashes)
             ELSE posix_comps(Tail(comps), new_comps, initial_slashes)

posix_normpath(path) ==
    IF path = <<>> THEN Dot
    ELSE LET initial_slashes ==
                 IF ~startswith(path, Slash) THEN 0
                 ELSE IF startswith(path, <<"/", "/">>) /\ ~startswith(path, <<"/", "/", "/">>)
                   THEN 2
                 ELSE 1
             comps == posix_comps(splitsep(path, {"/"}), <<>>, initial_slashes)
             joined == SubSeq(<<"/", "/">>, 1, initial_slashes) \o join(comps, Slash)
         IN  IF joined = <<>> THEN Dot ELSE joined

\* posixpath.join(a, p) for one component
posix_join(a, p) ==
    IF startswith(p, Slash) THEN p
    ELSE IF a = <<>> \/ a[Len(a)] = "/" THEN a \o p
    ELSE a \o Slash \o p

posix_abspath(path, cwd) ==
    posix_normpath(IF startswith(path, Slash) THEN path ELSE posix_join(cwd, path))

\* ntpath.splitroot for drive-letter paths: <<drive, root, rest>>
nt_splitroot(p) ==
    LET drive == IF Len(p) >= 2 /\ p[2] = ":" THEN SubSeq(p, 1, 2) ELSE <<>>
        after == SubSeq(p, Len(drive) + 1, Len(p))
        root == IF after # <<>> /\ after[1] = "\\" THEN Backslash ELSE <<>>
    IN  <<drive, root, SubSeq(after, Len(root) + 1, Len(after))>>

\* the loop of ntpath.normpath over the components
RECURSIVE nt_comps(_, _, _)
nt_comps(comps, new_comps, rooted) ==
    IF comps = <<>> THEN new_comps
    ELSE LET comp == Head(comps)
         IN  IF comp = <<>> \/ comp = Dot
               THEN nt_comps(Tail(comps), new_comps, rooted)
             ELSE IF comp = DotDot
               THEN IF new_comps # <<>> /\ new_comps[Len(new_comps)] # DotDot
                      THEN nt_comps(Tail(comps), SubSeq(new_comps, 1, Len(new_comps) - 1), rooted)
                    ELSE IF new_comps = <<>> /\ rooted
                      THEN nt_comps(Tail(comps), new_comps, rooted)
                    ELSE nt_comps(Tail(comps), Append(new_comps, comp), rooted)
             ELSE nt_comps(Tail(comps), Append(new_comps, comp), rooted)

nt_normpath(path) ==
    LET parts == nt_splitroot(replace(path, "/", "\\"))
        prefix == parts[1] \o parts[2]
        comps == nt_comps(splitsep(parts[3], {"\\"}), <<>>, parts[2] # <<>>)
    IN  IF prefix = <<>> /\ comps = <<>> THEN Dot ELSE prefix \o join(comps, Backslash)

\* _getfullpathname(normpath(path)): a path without drive and root is resolved
\* against cwd, a rooted path without drive against the drive of cwd
nt_abspath(path, cwd) ==
    LET norm == nt_normpath(path)
        parts == nt_splitroot(norm)
    IN  IF parts[1] # <<>> /\ parts[2] # <<>> THEN norm
        ELSE IF parts[2] # <<>> THEN nt_splitroot(cwd)[1] \o norm
        ELSE nt_normpath(cwd \o Backslash \o parts[3])

abspath(path, cwd, is_windows) ==
    IF is_windows THEN nt_abspath(path, cwd) ELSE posix_abspath(path, cwd)

(***************************************************************************)
(* JSON values, as json.load returns them: a value carries its Python type *)
(* in t.  A dict is the sequence of its <<key, value>> pairs in document   *)
(* order; keys are strings, a str value is a character sequence.           *)
(***************************************************************************)
Str(s) == [t |-> "str", v |-> s]
List(xs) == [t |-> "list", v |-> xs]
Dict(pairs) == [t |-> "dict", v |-> pairs]
Null == [t |-> "null", v |-> <<>>]

\* a list of str values
Strs(ss) == List([i \in 1..Len(ss) |-> Str(ss[i])])

\* dict.get(key, default)
dget(d, key, default) ==
    IF \E i \in 1..Len(d.v) : d.v[i][1] = key
      THEN d.v[CHOOSE i \in 1..Len(d.v) : d.v[i][1] = key][2]
      ELSE default

\* the outcome of a call: a returned value, or an exception that propagates
Returns(x) == [exc |-> "none", val |-> x]
Raises(e) == [exc |-> e, val |-> Null]

(***************************************************************************)
(* Texts of the model.                                                     *)
(***************************************************************************)
T_rm == <<"r", "m">>
T_RM == <<"R", "M">>
T_rf == <<"-", "r", "f">>
T_etc == <<"/", "e", "t", "c">>
T_ls == <<"l", "s">>
T_rm_rf == <<"r", "m", " ", "-", "r", "f">>
T_redirect == <<"2", ">", "&", "1">>
T_windows == <<"C", ":", "\\", "W", "i", "n", "d", "o", "w", "s">>
T_rm_r == <<"r", "m", " ", "-", "r">>
T_mv == <<"m", "v">>
T_rm_rf_etc == <<"r", "m", " ", "-", "r", "f", " ", "/", "e", "t", "c">>
T_data == <<"C", ":", "\\", "D", "a", "t", "a">>
T_exe == <<".", "e", "x", "e">>
T_dll == <<".", "d", "l", "l">>
T_sys == <<".", "s", "y", "s">>
T_dir == <<"d", "i", "r">>
T_pwd == <<"p", "w", "d">>
T_sq == <<"/", "s", " ", "/", "q">>
T_program_files == <<"C", ":", "\\", "P", "r", "o", "g", "r", "a", "m", " ", "F", "i", "l", "e", "s">>
T_program_files_x86 == <<"C", ":", "\\", "P", "r", "o", "g", "r", "a", "m", " ", "F", "i", "l", "e", "s", " ", "(", "x", "8", "6", ")">>

T_Windows == <<"W", "i", "n", "d", "o", "w", "s">>
T_Linux == <<"L", "i", "n", "u", "x">>
T_windows_lower == <<"w", "i", "n", "d", "o", "w", "s">>

(***************************************************************************)
(* The config sources of the model: what open() and json.load make of      *)
(* safety_config.json.  kind is "missing" (open raises FileNotFoundError), *)
(* "unreadable" (open raises another OSError, e.g. PermissionError),       *)
(* "undecodable" (the bytes are not text: UnicodeDecodeError), "malformed" *)
(* (json.load raises JSONDecodeError) or "json" (json.load returns value). *)
(***************************************************************************)
Source(kind, value) == [kind |-> kind, value |-> value]

\* a full configuration
FullConfig ==
    Dict(<< <<"protected_paths",
              Dict(<< <<"windows", Strs(<<T_data>>)>>, <<"unix", Strs(<<T_etc>>)>> >>)>>,
            <<"dangerous_commands",
              Dict(<< <<"critical", Strs(<<T_rm_rf, T_RM>>)>>,
                      <<"high_risk", Strs(<<T_rm_r>>)>>,
                      <<"medium_risk", Strs(<<T_mv>>)>> >>)>>,
            <<"safe_commands", Strs(<<T_ls, T_pwd>>)>>,
            <<"destructive_flags", Strs(<<T_rf>>)>>,
            <<"protected_extensions", Strs(<<T_exe>>)>> >>)

\* a configuration whose only tiers are critical and one of another name, and
\* whose safe_commands holds the empty string
TierConfig ==
    Dict(<< <<"protected_paths", Dict(<< <<"unix", Strs(<<T_etc>>)>> >>)>>,
            <<"dangerous_commands",
              Dict(<< <<"critical", Strs(<<T_rm_rf_etc>>)>>,
                      <<"audit", Strs(<<T_ls>>)>> >>)>>,
            <<"safe_commands", Strs(<<T_ls, <<>> >>)>>,
            <<"destructive_flags", Strs(<<T_rf>>)>> >>)

\* wrongly shaped documents
PathsListConfig == Dict(<< <<"protected_paths", List(<<>>)>> >>)
BlankEntryConfig ==
    Dict(<< <<"dangerous_commands", Dict(<< <<"high_risk", Strs(<< <<" ">> >>)>> >>)>> >>)
NullTierConfig ==
    Dict(<< <<"dangerous_commands", Dict(<< <<"critical", Null>> >>)>> >>)

Sources ==
    { Source("missing", Null), Source("unreadable", Null), Source("undecodable", Null),
      Source("malformed", Null),
      Source("json", List(<<>>)), Source("json", Dict(<<>>)),
      Source("json", PathsListConfig), Source("json", BlankEntryConfig),
      Source("json", NullTierConfig),
      Source("json", FullConfig), Source("json", TierConfig) }

(***************************************************************************)
(* SafetyGuardrails: construction.                                         *)
(***************************************************************************)
_get_default_config ==
    Dict(<< <<"safety_settings", Dict(<< <<"default_mode", Str(<<"s", "a", "f", "e">>)>> >>)>>,
            <<"protected_paths",
              Dict(<< <<"windows", List(<<>>)>>, <<"unix", List(<<>>)>> >>)>>,
            <<"dangerous_commands",
              Dict(<< <<"critical", List(<<>>)>>, <<"high_risk", List(<<>>)>>,
                      <<"medium_risk", List(<<>>)>> >>)>>,
            <<"safe_commands", Strs(<<T_dir, T_ls, T_pwd>>)>>,
            <<"destructive_flags", Strs(<<T_rf, T_sq>>)>>,
            <<"protected_extensions", Strs(<<T_exe, T_dll>>)>> >>)

\* _load_config: only FileNotFoundError and JSONDecodeError are caught; diag is
\* whether the warning was printed
_load_config(config_file) ==
    CASE config_file.kind = "missing" -> [exc |-> "none", val |-> _get_default_config, diag |-> FALSE]
      [] config_file.kind = "unreadable" -> [exc |-> "PermissionError", val |-> Null, diag |-> FALSE]
      [] config_file.kind = "undecodable" -> [exc |-> "UnicodeDecodeError", val |-> Null, diag |-> FALSE]
      [] config_file.kind = "malformed" -> [exc |-> "none", val |-> _get_default_config, diag |-> TRUE]
      [] OTHER -> [exc |-> "none", val |-> config_file.value, diag |-> FALSE]

\* the values of SYSTEMROOT, PROGRAMFILES and PROGRAMFILES(X86)
EnvPaths == <<T_windows, T_program_files, T_program_files_x86>>

\* d[key] = value on a dict that has the key
dset(d, key, value) ==
    Dict([i \in 1..Len(d.v) |-> IF d.v[i][1] = key THEN <<key, value>> ELSE d.v[i]])

has_key(d, key) == \E i \in 1..Len(d.v) : d.v[i][1] = key

\* _get_protected_paths: the paths, and the config afterwards. On Windows
\* paths.extend changes the list in place, which is the config's own list when the
\* config has the keys
_get_protected_paths(config, is_windows) ==
    IF config.t # "dict" THEN Raises("AttributeError")
    ELSE LET config_paths == dget(config, "protected_paths", Dict(<<>>))
         IN  IF config_paths.t # "dict" THEN Raises("AttributeError")
             ELSE IF is_windows
               THEN LET paths == dget(config_paths, "windows", List(<<>>))
                        extended == List(paths.v \o Strs(EnvPaths).v)
                    IN  IF paths.t # "list" THEN Raises("AttributeError")
                        ELSE Returns([paths |-> extended,
                                     config |->
                                       IF has_key(config, "protected_paths")
                                          /\ has_key(config_paths, "windows")
                                         THEN dset(config, "protected_paths",
                                                   dset(config_paths, "windows", extended))
                                         ELSE config])
             ELSE Returns([paths |-> dget(config_paths, "unix", List(<<>>)),
                          config |-> config])

\* the loop of _get_dangerous_commands over one tier's entries: commands is the
\* sequence of <<name, description>> assignments made so far
RECURSIVE dangerous_entries(_, _, _)
dangerous_entries(cmd_list, risk_level, commands) ==
    IF cmd_list = <<>> THEN Returns(commands)
    ELSE LET cmd == Head(cmd_list)
         IN  IF cmd.t # "str" THEN Raises("AttributeError")
             ELSE IF split(cmd.v) = <<>> THEN Raises("IndexError")
             ELSE dangerous_entries(Tail(cmd_list), risk_level,
                                    Append(commands, <<split(cmd.v)[1], risk_level>>))

\* the loop of _get_dangerous_commands over the tiers
RECURSIVE dangerous_tiers(_, _)
dangerous_tiers(items, commands) ==
    IF items = <<>> THEN Returns(commands)
    ELSE LET risk_level == Head(items)[1]
             cmd_list == Head(items)[2]
         IN  IF cmd_list.t # "list" THEN Raises("TypeError")
             ELSE LET done == dangerous_entries(cmd_list.v, risk_level, commands)
                  IN  IF done.exc # "none" THEN done
                      ELSE dangerous_tiers(Tail(items), done.val)

\* mutant of _get_dangerous_commands: only the tiers high_risk and medium_risk count
_get_dangerous_commands_known_tiers(config) ==
    LET config_commands == dget(config, "dangerous_commands", Dict(<<>>))
        known == { i \in 1..Len(config_commands.v) :
                     config_commands.v[i][1] \in {"high_risk", "medium_risk"} }
        nth(k) == CHOOSE i \in known : Cardinality({ j \in known : j <= i }) = k
    IN  IF config_commands.t # "dict" THEN Raises("AttributeError")
        ELSE dangerous_tiers([k \in 1..Cardinality(known) |-> config_commands.v[nth(k)]], <<>>)

\* _get_dangerous_commands: the dictionary, as its assignments in order (a later
\* assignment to a name replaces an earlier one)
_get_dangerous_commands(config) ==
    LET config_commands == dget(config, "dangerous_commands", Dict(<<>>))
    IN  IF config_commands.t # "dict" THEN Raises("AttributeError")
        ELSE dangerous_tiers(config_commands.v, <<>>)

\* first_word in self.dangerous_commands
is_dangerous(dangerous_commands, first_word) ==
    \E i \in 1..Len(dangerous_commands) : dangerous_commands[i][1] = first_word

\* self.dangerous_commands[first_word]: the description "<Tier> risk command", kept
\* as the tier it names
risk_desc_of(dangerous_commands, first_word) ==
    LET last == CHOOSE i \in 1..Len(dangerous_commands) :
                    /\ dangerous_commands[i][1] = first_word
                    /\ \A j \in (i + 1)..Len(dangerous_commands) :
                           dangerous_commands[j][1] # first_word
    IN  dangerous_commands[last][2]

\* set(list): the members of a list of strings
set_of(list) == { list.v[i].v : i \in 1..Len(list.v) }

NoEngine == [constructed |-> FALSE]

\* __init__: the engine, or the exception that reaches the caller; diag is whether
\* _load_config printed its warning
__init__(safe_mode, config_file, platform_system) ==
    LET is_windows == lower(platform_system) = T_windows_lower
        loaded == _load_config(config_file)
        failed(e) == [exc |-> e, val |-> NoEngine, diag |-> loaded.diag]
    IN  IF loaded.exc # "none" THEN failed(loaded.exc)
        ELSE LET got_paths == _get_protected_paths(loaded.val, is_windows)
             IN  IF got_paths.exc # "none" THEN failed(got_paths.exc)
                 ELSE LET config == got_paths.val.config
                          dangerous_commands == _get_dangerous_commands(config)
                          protected_extensions ==
                              dget(config, "protected_extensions", Strs(<<T_exe, T_dll, T_sys>>))
                          safe_commands == dget(config, "safe_commands", List(<<>>))
                      IN  IF dangerous_commands.exc # "none" THEN failed(dangerous_commands.exc)
                          ELSE IF protected_extensions.t # "list" \/ safe_commands.t # "list"
                            THEN failed("TypeError")
                          ELSE [exc |-> "none",
                                diag |-> loaded.diag,
                                val |-> [constructed |-> TRUE,
                                         safe_mode |-> safe_mode,
                                         is_windows |-> is_windows,
                                         config |-> config,
                                         protected_paths |-> got_paths.val.paths,
                                         dangerous_commands |-> dangerous_commands.val,
                                         protected_extensions |-> set_of(protected_extensions),
                                         safe_commands |-> set_of(safe_commands),
                                         destructive_flags |->
                                             dget(config, "destructive_flags", List(<<>>))]]

(***************************************************************************)
(* SafetyGuardrails: the calls.                                            *)
(***************************************************************************)
\* the str values of a list
strs_of(list) == [i \in 1..Len(list.v) |-> list.v[i].v]

\* any(pattern in command for pattern in patterns)
any_in(patterns, command) == \E i \in 1..Len(patterns) : contains(command, patterns[i])

\* the suspicious patterns, in order:  >\s*nul  2>&1  \|\s*del  &\s*del  &&\s*del
suspicious_patterns ==
    << [name |-> "> nul", pre |-> <<">">>, post |-> <<"n", "u", "l">>],
       [name |-> "2>&1", pre |-> <<"2", ">", "&", "1">>, post |-> <<>>],
       [name |-> "| del", pre |-> <<"|">>, post |-> <<"d", "e", "l">>],
       [name |-> "& del", pre |-> <<"&">>, post |-> <<"d", "e", "l">>],
       [name |-> "&& del", pre |-> <<"&", "&">>, post |-> <<"d", "e", "l">>] >>

\* mutant of has_destructive_flag: the flags are looked for in the first word only
has_destructive_flag_in_first_word(self, command) ==
    any_in(strs_of(self.destructive_flags),
           IF split(command) # <<>> THEN split(command)[1] ELSE <<>>)

\* any(pattern in command for pattern in self.destructive_flags)
has_destructive_flag(self, command) == any_in(strs_of(self.destructive_flags), command)

\* any(pattern in command for pattern in critical_commands)
matches_critical(self, command) ==
    any_in(strs_of(dget(dget(self.config, "dangerous_commands", Dict(<<>>)),
                        "critical", List(<<>>))),
           command)

\* command.split()[0] if command.split() else ''
first_word_of(command) == IF split(command) # <<>> THEN split(command)[1] ELSE <<>>

\* mutant of Assessment: a medium assessment carries no warnings
Assessment_quiet_medium(level, reason, warnings) ==
    [level |-> level, reason |-> reason,
     warnings |-> IF level = "medium" THEN <<>> ELSE warnings]

Assessment(level, reason, warnings) ==
    [level |-> level, reason |-> reason, warnings |-> warnings]

\* mutant of is_safe_command: the whole command must be a safe command
is_safe_command_whole(self, command, first_word) == command \in self.safe_commands

\* mutant of is_safe_command: a command without a first word counts as safe
is_safe_command_or_blank(self, command, first_word) ==
    first_word = <<>> \/ first_word \in self.safe_commands

\* first_word in self.safe_commands
is_safe_command(self, command, first_word) == first_word \in self.safe_commands

\* mutant of assess_command_risk: the dangerous-command family is looked at before
\* the critical signatures
assess_command_risk_family_first(self, command_in) ==
    LET command == lower(strip(command_in))
        first_word == first_word_of(command)
        protected == strs_of(self.protected_paths)
        hit_paths == { i \in 1..Len(protected) : contains(command, lower(protected[i])) }
        hit_patterns ==
            { i \in 1..Len(suspicious_patterns) :
                search_ws(command, suspicious_patterns[i].pre, suspicious_patterns[i].post) }
        first(S) == CHOOSE i \in S : \A j \in S : i <= j
    IN  IF is_dangerous(self.dangerous_commands, first_word)
          THEN LET risk_desc == risk_desc_of(self.dangerous_commands, first_word)
               IN  IF has_destructive_flag(self, command)
                     THEN Assessment("high", <<"High-risk", risk_desc, "with destructive flags">>,
                                     << <<"Dangerous command", risk_desc>>,
                                        <<"Recursive/forced operation detected">> >>)
                     ELSE Assessment("medium", <<"Potentially dangerous", risk_desc>>,
                                     << <<"Dangerous command", risk_desc>> >>)
        ELSE IF matches_critical(self, command)
          THEN Assessment("critical", <<"Destructive system operation detected">>,
                          << <<"SYSTEM DESTRUCTION RISK">> >>)
        ELSE IF hit_paths # {}
          THEN Assessment("high", <<"System directory access detected">>,
                          << <<"Operation on protected system path",
                               protected[first(hit_paths)]>> >>)
        ELSE IF hit_patterns # {}
          THEN Assessment("medium", <<"Suspicious command pattern">>,
                          << <<"Suspicious pattern detected",
                               suspicious_patterns[first(hit_patterns)].name>> >>)
        ELSE IF is_safe_command(self, command, first_word)
          THEN Assessment("safe", <<"Read-only operation">>, <<>>)
        ELSE Assessment("low", <<"Standard command">>, <<>>)

\* assess_command_risk
assess_command_risk(self, command_in) ==
    LET command == lower(strip(command_in))
        first_word == first_word_of(command)
        protected == strs_of(self.protected_paths)
        hit_paths == { i \in 1..Len(protected) : contains(command, lower(protected[i])) }
        hit_patterns ==
            { i \in 1..Len(suspicious_patterns) :
                search_ws(command, suspicious_patterns[i].pre, suspicious_patterns[i].post) }
        first(S) == CHOOSE i \in S : \A j \in S : i <= j
    IN  IF matches_critical(self, command)
          THEN Assessment("critical", <<"Destructive system operation detected">>,
                          << <<"SYSTEM DESTRUCTION RISK">> >>)
        ELSE IF is_dangerous(self.dangerous_commands, first_word)
          THEN LET risk_desc == risk_desc_of(self.dangerous_commands, first_word)
               IN  IF has_destructive_flag(self, command)
                     THEN Assessment("high", <<"High-risk", risk_desc, "with destructive flags">>,
                                     << <<"Dangerous command", risk_desc>>,
                                        <<"Recursive/forced operation detected">> >>)
                     ELSE Assessment("medium", <<"Potentially dangerous", risk_desc>>,
                                     << <<"Dangerous command", risk_desc>> >>)
        ELSE IF hit_paths # {}
          THEN Assessment("high", <<"System directory access detected">>,
                          << <<"Operation on protected system path",
                               protected[first(hit_paths)]>> >>)
        ELSE IF hit_patterns # {}
          THEN Assessment("medium", <<"Suspicious command pattern">>,
                          << <<"Suspicious pattern detected",
                               suspicious_patterns[first(hit_patterns)].name>> >>)
        ELSE IF is_safe_command(self, command, first_word)
          THEN Assessment("safe", <<"Read-only operation">>, <<>>)
        ELSE Assessment("low", <<"Standard command">>, <<>>)

\* is_path_protected; cwd is the process's current directory at the call
is_path_protected(self, path, cwd) ==
    LET abs_path == abspath(path, cwd, self.is_windows)
        protected == strs_of(self.protected_paths)
    IN  \E i \in 1..Len(protected) :
            startswith(abs_path, abspath(protected[i], cwd, self.is_windows))

\* an optional argument: None, or a str
None == [given |-> FALSE, v |-> <<>>]
Some(s) == [given |-> TRUE, v |-> s]
\* Python's truth value of an optional str
truthy(x) == x.given /\ x.v # <<>>

\* blocked_reason: None, or a message
NoReason == [given |-> FALSE, v |-> ""]
Reason(message) == [given |-> TRUE, v |-> message]

\* mutants of blocks: the wrong level is blocked; safe_mode is not consulted
blocks_high(self, risk_level) == self.safe_mode /\ risk_level = "high"
blocks_in_any_mode(self, risk_level) == risk_level = "critical"

\* if self.safe_mode and risk_level == 'critical'
blocks(self, risk_level) == self.safe_mode /\ risk_level = "critical"

\* if risk_level in ['high', 'medium']
needs_confirmation(risk_level) == risk_level \in {"high", "medium"}

\* mutant of forces_confirmation: a protected working directory only warns
forces_confirmation_never(self) == FALSE

\* if self.safe_mode, under a protected working directory
forces_confirmation(self) == self.safe_mode

\* mutant of validate_command: the blocking branch does not return, so the working
\* directory check still runs on a blocked result
validate_command_no_return(self, command, working_dir, cwd) ==
    LET risk == assess_command_risk(self, command)
        result == [allowed |-> TRUE,
                   risk_level |-> risk.level,
                   reason |-> risk.reason,
                   warnings |-> risk.warnings,
                   requires_confirmation |-> FALSE,
                   blocked_reason |-> NoReason]
        blocked == IF blocks(self, risk.level)
                     THEN [result EXCEPT
                             !.allowed = FALSE,
                             !.blocked_reason =
                                 Reason("Command blocked due to critical risk level")]
                     ELSE result
        confirm == [blocked EXCEPT
                      !.requires_confirmation = needs_confirmation(risk.level)]
    IN  IF truthy(working_dir) /\ is_path_protected(self, working_dir.v, cwd)
          THEN [confirm EXCEPT
                  !.warnings = Append(@, <<"Working directory is in protected system path",
                                           working_dir.v>>),
                  !.requires_confirmation = IF forces_confirmation(self) THEN TRUE ELSE @]
          ELSE confirm

\* validate_command
validate_command(self, command, working_dir, cwd) ==
    LET risk == assess_command_risk(self, command)
        result == [allowed |-> TRUE,
                   risk_level |-> risk.level,
                   reason |-> risk.reason,
                   warnings |-> risk.warnings,
                   requires_confirmation |-> FALSE,
                   blocked_reason |-> NoReason]
        confirm == [result EXCEPT !.requires_confirmation = needs_confirmation(risk.level)]
    IN  IF blocks(self, risk.level)
          THEN [result EXCEPT !.allowed = FALSE,
                              !.blocked_reason = Reason("Command blocked due to critical risk level")]
        ELSE IF truthy(working_dir) /\ is_path_protected(self, working_dir.v, cwd)
          THEN [confirm EXCEPT
                  !.warnings = Append(@, <<"Working directory is in protected system path",
                                           working_dir.v>>),
                  !.requires_confirmation = IF forces_confirmation(self) THEN TRUE ELSE @]
        ELSE confirm

\* the remediation table of get_safe_alternatives
alternatives ==
    << <<<<"d", "e", "l">>, <<"dir (to list files first)", "move to recycle bin instead">> >>,
       <<<<"r", "m">>, <<"ls -la (to list files first)", "mv to backup location">> >>,
       <<<<"f", "o", "r", "m", "a", "t">>, <<"chkdsk (to check disk)", "backup data first">> >>,
       <<<<"s", "h", "u", "t", "d", "o", "w", "n">>, <<"Use GUI shutdown", "Schedule shutdown with delay">> >>,
       <<<<"r", "e", "g">>, <<"Export registry backup first", "Use Registry Editor GUI">> >>,
       <<<<"c", "h", "m", "o", "d">>, <<"ls -la (to check current permissions)", "Use specific permission values">> >>,
       <<<<"s", "u", "d", "o">>, <<"Use specific sudo command", "Check if really needed">> >> >>

\* alternatives.get(first_word, default)
alternatives_get(first_word, default) ==
    LET hits == { i \in 1..Len(alternatives) : alternatives[i][1] = first_word }
    IN  IF hits = {} THEN default ELSE alternatives[CHOOSE i \in hits : TRUE][2]

\* mutant of get_safe_alternatives: the command is not lower-cased
get_safe_alternatives_as_typed(self, command) ==
    alternatives_get(first_word_of(strip(command)),
                     <<"Review command carefully", "Consider read-only alternatives">>)

\* get_safe_alternatives
get_safe_alternatives(self, command) ==
    LET command_lower == strip(lower(command))
        first_word == first_word_of(command_lower)
    IN  alternatives_get(first_word,
                         <<"Review command carefully", "Consider read-only alternatives">>)

\* the destructive patterns of create_backup_recommendation, in order
destructive_patterns == << <<"d", "e", "l">>, <<"r", "m">>, <<"f", "o", "r", "m", "a", "t">>, <<"r", "m", "d", "i", "r">>, <<"r", "d">> >>

\* Optional[str]: no recommendation
NoRecommendation == "None"

\* mutant of create_backup_recommendation: the command is not lower-cased
create_backup_recommendation_as_typed(self, command) ==
    IF any_in(destructive_patterns, command)
      THEN IF self.is_windows
             THEN "Consider creating a system restore point: 'rstrui.exe'"
             ELSE "Consider creating a backup: 'rsync -av /source/ /backup/'"
      ELSE NoRecommendation

\* create_backup_recommendation
create_backup_recommendation(self, command) ==
    IF any_in(destructive_patterns, lower(command))
      THEN IF self.is_windows
             THEN "Consider creating a system restore point: 'rstrui.exe'"
             ELSE "Consider creating a backup: 'rsync -av /source/ /backup/'"
      ELSE NoRecommendation

\* mutant of self_after_validate_command: a protected working directory is added
\* to the engine's protected paths
self_after_validate_command_learning(self, command, working_dir, cwd) ==
    IF truthy(working_dir) /\ is_path_protected(self, working_dir.v, cwd)
      THEN [self EXCEPT !.protected_paths = List(Append(@.v, Str(working_dir.v)))]
      ELSE self

\* the engine after a call: assess_command_risk, validate_command and
\* get_safe_alternatives assign no attribute of self and change no object it holds
self_after_assess_command_risk(self, command) == self
self_after_validate_command(self, command, working_dir, cwd) == self
self_after_get_safe_alternatives(self, command) == self

(***************************************************************************)
(* The inputs of the model.                                                *)
(***************************************************************************)
\* the words commands are made of; the empty word makes leading, trailing and
\* doubled blanks, and the blank command
Words(is_windows) ==
    { <<>>, T_rm, T_rf, T_ls, T_redirect,
      IF is_windows THEN T_windows ELSE T_etc }

\* the sequences of at most n members of S
SeqsUpTo(S, n) == UNION { [1..k -> S] : k \in 0..n }

Commands(is_windows) ==
    { join(ws, <<" ">>) : ws \in SeqsUpTo(Words(is_windows), MaxWords) }

\* commands in other cases and with other verbs, for the advisor calls
AdvisorCommands(is_windows) ==
    Commands(is_windows)
    \cup { <<"R", "M", " ", "-", "r", "f">>, <<" ", " ", "D", "e", "l", " ", "x">>, <<"F", "O", "R", "M", "A", "T", " ", "c", ":">>, <<"s", "u", "d", "o", " ", "r", "m">>, <<"c", "h", "m", "o", "d">>, <<"m", "k", "d", "i", "r", " ", "x">>, <<"d", "i", "r">>, <<"L", "S">> }

\* the commands handed to validate_command, one word shorter
ValidatedCommands(is_windows) ==
    { join(ws, <<" ">>) : ws \in SeqsUpTo(Words(is_windows), MaxWords - 1) }

\* the segments paths are made of
Segments(is_windows) ==
    IF is_windows
      THEN { <<>>, DotDot, <<"W", "i", "n", "d", "o", "w", "s">>,
             <<"w", "i", "n", "d", "o", "w", "s">>,
             <<"W", "i", "n", "d", "o", "w", "s", "2">> }
      ELSE { <<>>, DotDot, <<"e", "t", "c">>, <<"e", "t", "c", "x">> }

\* relative and absolute paths of at most n segments; on Windows none that starts
\* with two separators (a UNC path)
Paths(is_windows, n) ==
    IF is_windows
      THEN { p \in { prefix \o join(segs, Backslash) :
                       prefix \in { <<>>, <<"C", ":", "\\">> },
                       segs \in SeqsUpTo(Segments(TRUE), n) } :
               ~startswith(p, <<"\\", "\\">>) }
      ELSE { prefix \o join(segs, Slash) :
               prefix \in { <<>>, Slash }, segs \in SeqsUpTo(Segments(FALSE), n) }

\* the current directories of the process
Cwds(is_windows) ==
    IF is_windows
      THEN { <<"C", ":", "\\", "U", "s", "e", "r", "s">>, T_windows }
      ELSE { <<"/", "s", "r", "v">>, T_etc }

\* the working directories handed to validate_command: none, the empty string, an
\* absolute directory and a relative one
WorkingDirs(is_windows) ==
    { None, Some(<<>>),
      Some(IF is_windows THEN T_windows ELSE T_etc),
      Some(IF is_windows THEN <<"W", "i", "n", "d", "o", "w", "s">> ELSE <<"e", "t", "c">>) }

(***************************************************************************)
(* The state machine: one process builds the engine from the config file   *)
(* it finds and then calls it.                                             *)
(***************************************************************************)
VARIABLES
    platform_system,  \* what platform.system() returns
    config_file,      \* the config source
    safety,           \* the SafetyGuardrails instance, NoEngine before it is built
    raised,           \* the exception the constructor let through, "none" if none
    printed,          \* whether the invalid-JSON warning was printed
    call,             \* the last call of the engine: its arguments and result
    agent,            \* the CLIAgent instance, NoAgent before it is built
    memory_file,      \* the session's .cli_memory_<session>.pkl
    conversation_history,  \* agent.conversation_history
    clock,            \* datetime.now(), in interactions recorded so far
    shell,            \* the commands the last operation handed to subprocess.run
    questions,        \* questions.txt: whether it exists, its mtime and content
    last_modified     \* watch's last_modified

\* the state of the host around the engine
host_vars ==
    <<agent, memory_file, conversation_history, clock, shell, questions, last_modified>>

vars ==
    <<platform_system, config_file, safety, raised, printed, call,
      agent, memory_file, conversation_history, clock, shell, questions, last_modified>>

NoAgent == [constructed |-> FALSE]
\* no memory file, no questions.txt
NoMemoryFile == [exists |-> FALSE, unpickles |-> FALSE, data |-> <<>>]
NoQuestions == [exists |-> FALSE, mtime |-> 0, content |-> <<>>]

\* no host: the engine is used on its own
NoHost ==
    /\ agent = NoAgent
    /\ memory_file = NoMemoryFile
    /\ conversation_history = <<>>
    /\ clock = 0
    /\ shell = <<>>
    /\ questions = NoQuestions
    /\ last_modified = 0

NoCall == [op |-> "none"]

Init ==
    /\ platform_system \in { T_Linux, T_Windows }
    /\ config_file \in Sources
    /\ safety = NoEngine
    /\ raised = "none"
    /\ printed = FALSE
    /\ call = NoCall
    /\ NoHost

\* SafetyGuardrails(safe_mode=...)
Construct(safe_mode) ==
    /\ ~safety.constructed
    /\ raised = "none"
    /\ LET made == __init__(safe_mode, config_file, platform_system)
       IN  /\ safety' = made.val
           /\ raised' = made.exc
           /\ printed' = made.diag
    /\ UNCHANGED <<platform_system, config_file, call>>
    /\ UNCHANGED host_vars

\* safety.assess_command_risk(command)
AssessCommandRisk ==
    /\ safety.constructed
    /\ call = NoCall
    /\ \E command \in Commands(safety.is_windows) :
         /\ call' = [op |-> "assess_command_risk", command |-> command,
                     result |-> assess_command_risk(safety, command)]
         /\ safety' = self_after_assess_command_risk(safety, command)
    /\ UNCHANGED <<platform_system, config_file, raised, printed>>
    /\ UNCHANGED host_vars

\* safety.is_path_protected(path)
IsPathProtected ==
    /\ safety.constructed
    /\ call = NoCall
    /\ \E path \in Paths(safety.is_windows, MaxSegs) : \E cwd \in Cwds(safety.is_windows) :
         call' = [op |-> "is_path_protected", path |-> path, cwd |-> cwd,
                  result |-> is_path_protected(safety, path, cwd)]
    /\ UNCHANGED <<platform_system, config_file, safety, raised, printed>>
    /\ UNCHANGED host_vars

\* safety.validate_command(command, working_dir)
ValidateCommand ==
    /\ safety.constructed
    /\ call = NoCall
    /\ \E command \in ValidatedCommands(safety.is_windows) :
         \E working_dir \in WorkingDirs(safety.is_windows) :
           \E cwd \in Cwds(safety.is_windows) :
             /\ call' = [op |-> "validate_command", command |-> command,
                         working_dir |-> working_dir, cwd |-> cwd,
                         result |-> validate_command(safety, command, working_dir, cwd)]
             /\ safety' = self_after_validate_command(safety, command, working_dir, cwd)
    /\ UNCHANGED <<platform_system, config_file, raised, printed>>
    /\ UNCHANGED host_vars

\* safety.get_safe_alternatives(command)
GetSafeAlternatives ==
    /\ safety.constructed
    /\ call = NoCall
    /\ \E command \in AdvisorCommands(safety.is_windows) :
         /\ call' = [op |-> "get_safe_alternatives", command |-> command,
                     result |-> get_safe_alternatives(safety, command)]
         /\ safety' = self_after_get_safe_alternatives(safety, command)
    /\ UNCHANGED <<platform_system, config_file, raised, printed>>
    /\ UNCHANGED host_vars

\* safety.create_backup_recommendation(command)
CreateBackupRecommendation ==
    /\ safety.constructed
    /\ call = NoCall
    /\ \E command \in AdvisorCommands(safety.is_windows) :
         call' = [op |-> "create_backup_recommendation", command |-> command,
                  result |-> create_backup_recommendation(safety, command)]
    /\ UNCHANGED <<platform_system, config_file, safety, raised, printed>>
    /\ UNCHANGED host_vars

\* the caller has taken the result
Return ==
    /\ call # NoCall
    /\ call' = NoCall
    /\ UNCHANGED <<platform_system, config_file, safety, raised, printed>>
    /\ UNCHANGED host_vars

Next ==
    \/ \E safe_mode \in BOOLEAN : Construct(safe_mode)
    \/ AssessCommandRisk
    \/ IsPathProtected
    \/ ValidateCommand
    \/ GetSafeAlternatives
    \/ CreateBackupRecommendation
    \/ Return

Spec == Init /\ [][Next]_vars

(***************************************************************************)
(* CLIAgent: the host of the engine.  An interaction of the conversation   *)
(* memory is identified by its timestamp; its type, input and output play  *)
(* no part in what the memory keeps.                                       *)
(***************************************************************************)
\* the number of interactions _add_to_memory keeps
MemoryLimit == 20

\* the interactions recorded in one run of the model
MaxClock == 24
\* the lines of questions.txt and the times it is written
MaxLines == 3
MaxEdits == 2

Interaction(timestamp) == [timestamp |-> timestamp]

\* the interactions with the timestamps a..b
Interactions(a, b) == [i \in 1..(b - a + 1) |-> Interaction(a + i - 1)]

\* the memory files a session can find: none, one that does not unpickle, and the
\* memory saved by an earlier run, short or full
MemoryFiles ==
    { NoMemoryFile,
      [exists |-> TRUE, unpickles |-> FALSE, data |-> <<>>],
      [exists |-> TRUE, unpickles |-> TRUE, data |-> Interactions(1, 5)],
      [exists |-> TRUE, unpickles |-> TRUE, data |-> Interactions(2, 21)] }

\* _load_memory
_load_memory(file) == IF file.exists /\ file.unpickles THEN file.data ELSE <<>>

\* _save_memory
_save_memory(history) == [exists |-> TRUE, unpickles |-> TRUE, data |-> history]

\* mutant of _add_to_memory: the first 20 interactions are kept
_add_to_memory_keeping_first(history, timestamp) ==
    LET appended == Append(history, Interaction(timestamp))
    IN  IF Len(appended) > MemoryLimit THEN SubSeq(appended, 1, MemoryLimit) ELSE appended

\* _add_to_memory: append, then keep the last 20
_add_to_memory(history, timestamp) ==
    LET appended == Append(history, Interaction(timestamp))
    IN  IF Len(appended) > MemoryLimit
          THEN SubSeq(appended, Len(appended) - MemoryLimit + 1, Len(appended))
          ELSE appended

\* the memory after n interactions were added at the times after now
RECURSIVE add_interactions(_, _, _)
add_interactions(history, now, n) ==
    IF n = 0 THEN history
    ELSE add_interactions(_add_to_memory(history, now + 1), now + 1, n - 1)

\* what subprocess.run does: the command exits with a return code, or run raises
RunOutcomes ==
    { [raises |-> FALSE, returncode |-> 0], [raises |-> FALSE, returncode |-> 1],
      [raises |-> TRUE, returncode |-> 0] }

\* mutant of is_paused: only a high-risk command waits for confirmation
is_paused_only_high(validation) ==
    validation.requires_confirmation /\ validation.risk_level = "high"

\* if not validation['allowed']
is_blocked(validation) == ~validation.allowed

\* if validation['requires_confirmation']
is_paused(validation) == validation.requires_confirmation

\* execute_command, from the validation of line 116 on (it is not looked at under
\* force): the result, and the commands handed to subprocess.run; every path adds
\* one interaction to the memory
execute_command(validation, command, working_directory, force, outcome) ==
    IF ~force /\ is_blocked(validation)
      THEN [shell |-> <<>>,
            result |-> [command |-> command, return_code |-> -1, success |-> FALSE,
                        blocked |-> TRUE, risk_level |-> validation.risk_level]]
    ELSE IF ~force /\ is_paused(validation)
      THEN [shell |-> <<>>,
            result |-> [command |-> command, return_code |-> -2, success |-> FALSE,
                        requires_confirmation |-> TRUE,
                        risk_level |-> validation.risk_level]]
    ELSE [shell |-> << [command |-> command, cwd |-> working_directory] >>,
          result |-> IF outcome.raises
                       THEN [command |-> command, return_code |-> -1, success |-> FALSE]
                       ELSE [command |-> command, return_code |-> outcome.returncode,
                             success |-> outcome.returncode = 0]]

\* what bedrock.invoke_model gives: a text, or an exception
BedrockFails == [ok |-> FALSE, text |-> <<>>]
BedrockSays(text) == [ok |-> TRUE, text |-> text]

\* the command in the model's reply: the first line of the stripped text, stripped
command_of(text) == strip(splitsep(strip(text), {"\n"})[1])

T_unknown == <<"u", "n", "k", "n", "o", "w", "n">>

\* answer_question and answer_question_with_force: the result, the commands run and
\* the number of interactions added to the memory; reply is the first answer of the
\* model, command the command read from it, ran what execute_command made of it,
\* answered whether the second answer came
answer_question(question, reply, command, ran, answered) ==
    IF ~reply.ok
      THEN [shell |-> <<>>, added |-> 1, command |-> T_unknown,
            result |-> [question |-> question, command_used |-> T_unknown,
                        success |-> FALSE]]
    ELSE [shell |-> ran.shell, added |-> 2, command |-> command,
          result |-> IF answered
                       THEN [question |-> question, command_used |-> command,
                             success |-> ran.result.success]
                       ELSE [question |-> question, command_used |-> T_unknown,
                             success |-> FALSE]]

\* mutant of scan: the plain delimiter is looked for first
RECURSIVE scan_plain_first(_, _, _)
scan_plain_first(lines, i, question_lines) ==
    IF i > Len(lines) THEN [force_mode |-> FALSE, question_lines |-> question_lines]
    ELSE IF startswith(strip(lines[i]), <<"=", "=", "=">>)
      THEN [force_mode |-> FALSE, question_lines |-> question_lines]
    ELSE IF startswith(strip(lines[i]), <<"=", "=", "=", "!">>)
      THEN [force_mode |-> TRUE, question_lines |-> question_lines]
    ELSE scan_plain_first(lines, i + 1, Append(question_lines, lines[i]))

\* watch: the loop over the lines of questions.txt
RECURSIVE scan(_, _, _)
scan(lines, i, question_lines) ==
    IF i > Len(lines) THEN [force_mode |-> FALSE, question_lines |-> question_lines]
    ELSE IF startswith(strip(lines[i]), <<"=", "=", "=", "!">>)
      THEN [force_mode |-> TRUE, question_lines |-> question_lines]
    ELSE IF startswith(strip(lines[i]), <<"=", "=", "=">>)
      THEN [force_mode |-> FALSE, question_lines |-> question_lines]
    ELSE scan(lines, i + 1, Append(question_lines, lines[i]))

\* watch: the question and the force mode read from the content of questions.txt
read_question(content) ==
    LET scanned == scan(splitsep(content, {"\n"}), 1, <<>>)
    IN  [force_mode |-> scanned.force_mode,
         question |-> strip(join(scanned.question_lines, <<"\n">>))]

(***************************************************************************)
(* create_task_plan and execute_task.                                      *)
(***************************************************************************)

\* execute_task: the words that make a task complex
complex_keywords ==
    << <<"a", "n", "d">>, <<"t", "h", "e", "n">>, <<"a", "f", "t", "e", "r">>,
       <<"i", "n", "s", "t", "a", "l", "l">>, <<"b", "u", "i", "l", "d">>,
       <<"d", "e", "p", "l", "o", "y">>, <<"s", "e", "t", "u", "p">> >>

\* execute_task: a task of more words than this is complex
ComplexWords == 10

\* execute_task: is_complex
is_complex(task) ==
    \/ \E k \in 1..Len(complex_keywords) : contains(lower(task), complex_keywords[k])
    \/ Len(split(task)) > ComplexWords

\* the characters str.isdigit accepts
Digits == {"0", "1", "2", "3", "4", "5", "6", "7", "8", "9"}

\* str.lstrip(chars)
lstrip(s, chars) == SubSeq(s, skip(s, 1, chars), Len(s))

\* create_task_plan: the step on a stripped line of the plan: what follows its first
\* '.', or the line without its leading '-' and '*'
step_of(line) ==
    IF "." \in { line[i] : i \in 1..Len(line) }
      THEN strip(SubSeq(line, find(line, 1, {"."}) + 1, Len(line)))
      ELSE strip(lstrip(line, {"-", "*"}))

\* create_task_plan: the loop over the lines of the plan text
RECURSIVE extract_steps(_, _)
extract_steps(lines, steps) ==
    IF lines = <<>> THEN steps
    ELSE LET line == strip(Head(lines))
         IN  IF /\ line # <<>>
                /\ (line[1] \in Digits \/ startswith(line, <<"-">>) \/ startswith(line, <<"*">>))
                /\ step_of(line) # <<>>
               THEN extract_steps(Tail(lines), Append(steps, step_of(line)))
               ELSE extract_steps(Tail(lines), steps)

\* create_task_plan: the steps read from the model's reply, or a plan of two steps
\* when there are none or the model fails
create_task_plan(task_description, reply) ==
    LET verify == <<"V", "e", "r", "i", "f", "y", " ",
                    "c", "o", "m", "p", "l", "e", "t", "i", "o", "n">>
    IN  IF ~reply.ok
          THEN << <<"E", "x", "e", "c", "u", "t", "e", ":", " ">> \o task_description, verify >>
        ELSE LET steps == extract_steps(splitsep(reply.text, {"\n"}), <<>>)
             IN  IF steps # <<>> THEN steps
                 ELSE << <<"E", "x", "e", "c", "u", "t", "e", " ",
                           "t", "h", "e", " ", "t", "a", "s", "k">>, verify >>

\* a call of execute_command(command, working_directory) that execute_task makes,
\* and a step it only records
CallOf(command, working_directory) ==
    [calls |-> TRUE, command |-> command, working_directory |-> working_directory,
     force |-> FALSE]
Planned(step) == [calls |-> FALSE, result |-> [step |-> step, status |-> "planned"]]

\* mutant of plan_loop: every step of the plan is run as a command
RECURSIVE plan_loop_running_each_step(_, _, _, _)
plan_loop_running_each_step(task, working_dir, plan, i) ==
    IF i > Len(plan) THEN <<>>
    ELSE <<CallOf(plan[i], working_dir)>>
           \o plan_loop_running_each_step(task, working_dir, plan, i + 1)

\* execute_task: the loop over the plan from step i on: what each step appends to
\* the results, the result of execute_command(task, working_dir) at the last step
\* and a record of the step before it
RECURSIVE plan_loop(_, _, _, _)
plan_loop(task, working_dir, plan, i) ==
    IF i > Len(plan) THEN <<>>
    ELSE <<IF i = Len(plan) THEN CallOf(task, working_dir) ELSE Planned(plan[i])>>
           \o plan_loop(task, working_dir, plan, i + 1)

\* execute_task: the type of the task, its plan and what is appended to the results;
\* reply is the model's answer to create_task_plan
execute_task(task, working_dir, reply) ==
    IF is_complex(task)
      THEN LET plan == create_task_plan(task, reply)
           IN  [task_type |-> "complex", plan |-> plan,
                entries |-> plan_loop(task, working_dir, plan, 1)]
      ELSE [task_type |-> "simple", plan |-> <<>>,
            entries |-> <<CallOf(task, working_dir)>>]

\* the calls of execute_command among the entries, each with its step
calls_of(entries) ==
    LET numbered == [i \in 1..Len(entries) |->
                       IF entries[i].calls
                         THEN [step |-> i, command |-> entries[i].command,
                               working_directory |-> entries[i].working_directory,
                               force |-> entries[i].force]
                         ELSE [step |-> 0]]
    IN  SelectSeq(numbered, LAMBDA e : e.step # 0)

\* the commands started, from entry i on; runs[j] is what execute_command made of
\* entry j
RECURSIVE shell_of(_, _, _)
shell_of(entries, runs, i) ==
    IF i > Len(entries) THEN <<>>
    ELSE (IF entries[i].calls THEN runs[i].shell ELSE <<>>) \o shell_of(entries, runs, i + 1)

\* execute_task: the dictionary returned
task_result(task, runs) ==
    LET results == [i \in 1..Len(task.entries) |->
                      IF task.entries[i].calls THEN runs[i].result
                      ELSE task.entries[i].result]
    IN  IF task.task_type = "complex"
          THEN [plan |-> task.plan, results |-> results, task_type |-> "complex"]
          ELSE [results |-> results, task_type |-> "simple"]

(***************************************************************************)
(* The inputs of the host.                                                 *)
(***************************************************************************)
\* the config files the host finds as safety_config.json
AgentSources ==
    { Source("missing", Null), Source("unreadable", Null), Source("json", FullConfig) }

\* the commands handed to the host: a blank one, safe and unknown ones, one with a
\* suspicious pattern, and ones on a dangerous command or a protected path
AgentCommands(is_windows) ==
    LET path == IF is_windows THEN T_windows ELSE T_etc
    IN  { <<>>, T_ls, T_rf, T_rm_rf,
          join(<<T_ls, T_redirect>>, <<" ">>),
          join(<<T_rm, path>>, <<" ">>),
          join(<<T_ls, path>>, <<" ">>) }

\* the working directories handed to the host: none and a protected one
AgentWorkingDirs(is_windows) ==
    { None, Some(IF is_windows THEN T_data ELSE T_etc) }

\* the current directory of the host process
HostCwd(is_windows) ==
    IF is_windows THEN <<"C", ":", "\\", "U", "s", "e", "r", "s">> ELSE <<"/", "s", "r", "v">>

\* the first answers of the model
BedrockReplies ==
    { BedrockFails, BedrockSays(T_ls), BedrockSays(<<" ", "r", "m", " ", "-", "r", "f", " ", "\n", "l", "s">>) }

\* the lines of questions.txt, and its contents
QuestionLines ==
    { <<>>, T_ls, <<"=", "=", "=">>, <<" ", "=", "=", "=", "!", " ">> }
Contents == { join(ls, <<"\n">>) : ls \in SeqsUpTo(QuestionLines, MaxLines) }

\* the tasks handed to the host: ones of one command, cleared, paused and blocked;
\* ones with a complex keyword, as a word in capitals and inside another word; and
\* ones of ten and of eleven words
RECURSIVE repeated(_, _)
repeated(s, n) == IF n = 0 THEN <<>> ELSE s \o repeated(s, n - 1)
Tasks ==
    { T_ls, join(<<T_ls, T_redirect>>, <<" ">>), T_rm_rf_etc,
      <<"l", "s", " ", "A", "N", "D", " ", "p", "w", "d">>,
      <<"l", "s", " ", "s", "a", "n", "d", "b", "o", "x">>,
      T_rm_rf_etc \o <<" ", "t", "h", "e", "n", " ", "l", "s">>,
      repeated(<<" ", "l", "s">>, ComplexWords), repeated(<<" ", "l", "s">>, ComplexWords + 1) }

\* the model's answers to create_task_plan: none, plans of three steps and of one,
\* and texts no step is read from
TaskReplies ==
    { BedrockFails,
      BedrockSays(<<"P", "l", "a", "n", ":", "\n", "1", ".", " ", "l", "s", "\n", " ", "2", ".", " ", "p", "w", "d", " ", "\n", "-", " ", "r", "m", " ", "-", "r", "f", " ", "/", "e", "t", "c">>),
      BedrockSays(<<"1", ".", " ", "l", "s">>),
      BedrockSays(<<"3", " ", "l", "s", "\n", "*", " ", "a", ".", "b">>),
      BedrockSays(<<"1", ".", "\n", "*", "\n", "r", "u", "n", " ", "i", "t">>) }

(***************************************************************************)
(* The host's state machine: a session builds its agent and runs commands  *)
(* and questions through it.                                               *)
(***************************************************************************)
AgentInit ==
    /\ platform_system \in { T_Linux, T_Windows }
    /\ config_file \in AgentSources
    /\ safety = NoEngine
    /\ raised = "none"
    /\ printed = FALSE
    /\ call = NoCall
    /\ agent = NoAgent
    /\ memory_file \in MemoryFiles
    /\ conversation_history = <<>>
    /\ clock = IF _load_memory(memory_file) = <<>> THEN 0
               ELSE memory_file.data[Len(memory_file.data)].timestamp
    /\ shell = <<>>
    /\ questions = NoQuestions
    /\ last_modified = 0

\* cli (safe_mode = not unsafe) and CLIAgent.__init__
CLIAgent__init__(unsafe, watching) ==
    /\ ~agent.constructed
    /\ raised = "none"
    /\ LET safe_mode == ~unsafe
           made == __init__(safe_mode, config_file, platform_system)
       IN  /\ safety' = made.val
           /\ raised' = made.exc
           /\ printed' = made.diag
           /\ IF made.exc = "none"
                THEN /\ agent' = [constructed |-> TRUE, safe_mode |-> safe_mode,
                                  watching |-> watching]
                     /\ conversation_history' = _load_memory(memory_file)
                ELSE UNCHANGED <<agent, conversation_history>>
    /\ UNCHANGED <<platform_system, config_file, call, memory_file, clock, shell, questions>>

\* a session that is not watch
AgentConstruct(unsafe) ==
    /\ CLIAgent__init__(unsafe, FALSE)
    /\ UNCHANGED last_modified

\* n interactions are added to the memory and saved
Remember(n) ==
    /\ conversation_history' = add_interactions(conversation_history, clock, n)
    /\ memory_file' = _save_memory(conversation_history')
    /\ clock' = clock + n

\* agent.execute_command(command, working_directory, force)
ExecuteCommand ==
    /\ agent.constructed
    /\ ~agent.watching
    /\ call = NoCall
    /\ clock < MaxClock
    /\ \E command \in AgentCommands(safety.is_windows) :
         \E working_directory \in AgentWorkingDirs(safety.is_windows) :
           \E cwd \in { HostCwd(safety.is_windows) } :
             \E validation \in { validate_command(safety, command, working_directory, cwd) } :
               \E force \in BOOLEAN : \E outcome \in RunOutcomes :
                 \E done \in { execute_command(validation, command, working_directory,
                                               force, outcome) } :
                   /\ call' = [op |-> "execute_command", command |-> command,
                               working_dir |-> working_directory, cwd |-> cwd,
                               force |-> force, result |-> done.result]
                   /\ shell' = done.shell
    /\ Remember(1)
    /\ UNCHANGED <<platform_system, config_file, safety, raised, printed, agent,
                   questions, last_modified>>

\* answer_question (force = FALSE) or answer_question_with_force (force = TRUE) on
\* behalf of op
Ask(op, question, working_directory, force) ==
    \E reply \in BedrockReplies : \E outcome \in RunOutcomes : \E answered \in BOOLEAN :
      \E command \in { command_of(reply.text) } :
        \E cwd \in { HostCwd(safety.is_windows) } :
          \E validation \in { validate_command(safety, command, working_directory, cwd) } :
            \E ran \in { execute_command(validation, command, working_directory,
                                         force, outcome) } :
              \E done \in { answer_question(question, reply, command, ran, answered) } :
                /\ call' = [op |-> op, question |-> question, command |-> done.command,
                            working_dir |-> working_directory, cwd |-> cwd,
                            force |-> force, asked |-> TRUE, result |-> done.result]
                /\ shell' = done.shell
                /\ Remember(done.added)

\* agent.answer_question(question, working_directory)
AnswerQuestion ==
    /\ agent.constructed
    /\ ~agent.watching
    /\ call = NoCall
    /\ clock + 2 <= MaxClock
    /\ \E working_directory \in AgentWorkingDirs(safety.is_windows) :
         Ask("answer_question", T_ls, working_directory, FALSE)
    /\ UNCHANGED <<platform_system, config_file, safety, raised, printed, agent,
                   questions, last_modified>>

\* agent.execute_task(task, working_dir)
ExecuteTask ==
    /\ agent.constructed
    /\ ~agent.watching
    /\ call = NoCall
    /\ \E task \in Tasks : \E working_dir \in AgentWorkingDirs(safety.is_windows) :
         \E reply \in TaskReplies : \E outcome \in RunOutcomes :
           \E cwd \in { HostCwd(safety.is_windows) } :
             \E done \in { execute_task(task, working_dir, reply) } :
               \E runs \in { [i \in 1..Len(done.entries) |->
                                IF done.entries[i].calls
                                  THEN execute_command(
                                         validate_command(safety, done.entries[i].command,
                                             done.entries[i].working_directory, cwd),
                                         done.entries[i].command,
                                         done.entries[i].working_directory,
                                         done.entries[i].force, outcome)
                                  ELSE [shell |-> <<>>, result |-> done.entries[i].result]] } :
                 \E calls \in { calls_of(done.entries) } :
                   /\ clock + Len(calls) <= MaxClock
                   /\ call' = [op |-> "execute_task", task |-> task,
                               working_dir |-> working_dir, cwd |-> cwd, calls |-> calls,
                               result |-> task_result(done, runs)]
                   /\ shell' = shell_of(done.entries, runs, 1)
                   /\ Remember(Len(calls))
    /\ UNCHANGED <<platform_system, config_file, safety, raised, printed, agent,
                   questions, last_modified>>

\* the caller has taken the result of the host
HostReturn ==
    /\ call # NoCall
    /\ call' = NoCall
    /\ shell' = <<>>
    /\ UNCHANGED <<platform_system, config_file, safety, raised, printed, agent,
                   memory_file, conversation_history, clock, questions, last_modified>>

AgentNext ==
    \/ \E unsafe \in BOOLEAN : AgentConstruct(unsafe)
    \/ ExecuteCommand
    \/ AnswerQuestion
    \/ ExecuteTask
    \/ HostReturn

AgentSpec == AgentInit /\ [][AgentNext]_vars

(***************************************************************************)
(* watch: the session polls questions.txt, which its user writes.          *)
(***************************************************************************)
WatchInit ==
    /\ platform_system \in { T_Linux, T_Windows }
    /\ config_file = Source("json", FullConfig)
    /\ safety = NoEngine
    /\ raised = "none"
    /\ printed = FALSE
    /\ call = NoCall
    /\ agent = NoAgent
    /\ memory_file = NoMemoryFile
    /\ conversation_history = <<>>
    /\ clock = 0
    /\ shell = <<>>
    /\ questions \in { NoQuestions, [exists |-> TRUE, mtime |-> 1, content |-> T_ls] }
    /\ last_modified = 0

\* watch, up to its loop
Watch(unsafe) ==
    /\ CLIAgent__init__(unsafe, TRUE)
    /\ last_modified' = IF questions.exists THEN questions.mtime ELSE 0

\* the user writes questions.txt
EditQuestions ==
    /\ call = NoCall
    /\ questions.mtime < MaxEdits
    /\ \E content \in Contents :
         questions' = [exists |-> TRUE, mtime |-> questions.mtime + 1, content |-> content]
    /\ UNCHANGED <<platform_system, config_file, safety, raised, printed, call, agent,
                   memory_file, conversation_history, clock, shell, last_modified>>

\* one turn of watch's loop that finds questions.txt changed
WatchPoll ==
    /\ agent.constructed
    /\ agent.watching
    /\ call = NoCall
    /\ questions.exists
    /\ questions.mtime > last_modified
    /\ last_modified' = questions.mtime
    /\ \E read \in { read_question(questions.content) } :
         IF read.question # <<>>
           THEN Ask("watch", read.question, None, read.force_mode)
           ELSE /\ call' = [op |-> "watch", question |-> read.question,
                            force |-> read.force_mode, asked |-> FALSE]
                /\ shell' = <<>>
                /\ UNCHANGED <<memory_file, conversation_history, clock>>
    /\ UNCHANGED <<platform_system, config_file, safety, raised, printed, agent, questions>>

WatchNext ==
    \/ \E unsafe \in BOOLEAN : Watch(unsafe)
    \/ EditQuestions
    \/ WatchPoll
    \/ HostReturn

WatchSpec == WatchInit /\ [][WatchNext]_vars

(***************************************************************************)
(* The claims.                                                             *)
(***************************************************************************)
Validated == call.op = "validate_command"
Assessed == call.op = "assess_command_risk"
Guarded == call.op = "is_path_protected"

\* the level assess_command_risk gives the command of the last call
AssessedLevel == assess_command_risk(safety, call.command).level

\* the working directory of the last validate_command call was supplied (a
\* non-empty string, as the code's `if working_dir` reads it) and is_path_protected
\* holds of it
ProtectedWorkingDir ==
    /\ truthy(call.working_dir)
    /\ is_path_protected(safety, call.working_dir.v, call.cwd)

\* C1: on an engine with safe_mode=true, validate_command of a command that
\* assess_command_risk classifies as critical returns allowed=false, a non-empty
\* blocked_reason and requires_confirmation=false, whatever the working directory.
C1_CriticalBlockedInSafeMode ==
    (Validated /\ safety.safe_mode /\ AssessedLevel = "critical") =>
        /\ call.result.allowed = FALSE
        /\ call.result.blocked_reason.given
        /\ call.result.blocked_reason.v # ""
        /\ call.result.requires_confirmation = FALSE

\* a critical command was validated in safe mode under a supplied working directory
\* that is not protected
C1_Witness ==
    /\ Validated /\ safety.safe_mode /\ AssessedLevel = "critical"
    /\ truthy(call.working_dir) /\ ~ProtectedWorkingDir
    /\ ~call.result.allowed

\* C2: with safe_mode=false validate_command never blocks: allowed=true,
\* blocked_reason unset, and requires_confirmation is true exactly when the assessed
\* level is medium or high.
C2_UnsafeModeNeverBlocks ==
    (Validated /\ ~safety.safe_mode) =>
        /\ call.result.allowed = TRUE
        /\ ~call.result.blocked_reason.given
        /\ call.result.requires_confirmation = (AssessedLevel \in {"medium", "high"})

\* a critical command was validated with safe_mode=false under a protected working
\* directory, and was let through without confirmation
C2_Witness ==
    /\ Validated /\ ~safety.safe_mode /\ AssessedLevel = "critical"
    /\ ProtectedWorkingDir
    /\ call.result.allowed /\ ~call.result.requires_confirmation

\* C3: every decision of validate_command satisfies: allowed=false implies
\* blocked_reason is set; requires_confirmation=true implies allowed=true;
\* requires_confirmation=true and a set blocked_reason never occur together.
C3_DecisionInvariant ==
    Validated =>
        /\ (~call.result.allowed => call.result.blocked_reason.given)
        /\ (call.result.requires_confirmation => call.result.allowed)
        /\ ~(call.result.requires_confirmation /\ call.result.blocked_reason.given)

\* a command was blocked under a protected working directory
C3_Witness ==
    /\ Validated /\ ProtectedWorkingDir
    /\ ~call.result.allowed /\ call.result.blocked_reason.given

(***************************************************************************)
(* What the classifier is asked about, read off the configuration and the  *)
(* command of the last call.  The classifier looks at the command stripped  *)
(* and lower-cased, and compares it with the configured strings as they    *)
(* are written (only protected paths are lower-cased): "the command        *)
(* contains" and "the first token" mean this text.                         *)
(***************************************************************************)
Normalised == lower(strip(call.command))
FirstToken == IF split(Normalised) = <<>> THEN <<>> ELSE split(Normalised)[1]

\* the tiers of the configuration's dangerous_commands, and the entries of a tier
Tiers == dget(safety.config, "dangerous_commands", Dict(<<>>)).v
TierNames == { Tiers[i][1] : i \in 1..Len(Tiers) }
TierEntries(names) ==
    UNION { { Tiers[i][2].v[j].v : j \in 1..Len(Tiers[i][2].v) } :
              i \in { k \in 1..Len(Tiers) : Tiers[k][1] \in names } }
\* the names (first words) of the entries of the tiers
DangerousNames(names) == { split(e)[1] : e \in TierEntries(names) }

CriticalSignatureIn == \E sig \in TierEntries({"critical"}) : contains(Normalised, sig)
DangerousFirstToken == FirstToken \in DangerousNames(TierNames)
DestructiveFlagIn ==
    \E i \in 1..Len(safety.destructive_flags.v) :
        contains(Normalised, safety.destructive_flags.v[i].v)
ProtectedPathIn ==
    \E i \in 1..Len(safety.protected_paths.v) :
        contains(Normalised, lower(safety.protected_paths.v[i].v))
SuspiciousPatternIn ==
    \/ search_ws(Normalised, <<">">>, <<"n", "u", "l">>)
    \/ contains(Normalised, <<"2", ">", "&", "1">>)
    \/ search_ws(Normalised, <<"|">>, <<"d", "e", "l">>)
    \/ search_ws(Normalised, <<"&">>, <<"d", "e", "l">>)
SafeFirstToken == FirstToken \in safety.safe_commands

\* C4: critical always wins: whenever the command contains a critical-tier signature,
\* assess_command_risk returns level critical, whatever else the command matches.
C4_CriticalAlwaysWins ==
    (Assessed /\ CriticalSignatureIn) => call.result.level = "critical"

\* a command that contains a critical signature, has a dangerous first token, a
\* destructive flag and a protected path was assessed
C4_Witness ==
    /\ Assessed /\ CriticalSignatureIn
    /\ DangerousFirstToken /\ DestructiveFlagIn /\ ProtectedPathIn
    /\ call.result.level = "critical"

\* C5 as stated: a command that contains a destructive flag and whose first token is
\* a dangerous-command name is assessed exactly high.
C5_FlaggedFamilyIsHigh ==
    (Assessed /\ DestructiveFlagIn /\ DangerousFirstToken) => call.result.level = "high"

\* C5 as amended: a command that contains a destructive flag and whose first token is
\* a dangerous-command name is assessed exactly high if it contains no critical-tier
\* signature, and critical if it does.
C5_FlaggedFamilyIsHighUnlessCritical ==
    (Assessed /\ DestructiveFlagIn /\ DangerousFirstToken) =>
        call.result.level = IF CriticalSignatureIn THEN "critical" ELSE "high"

\* a command with a dangerous first token and a destructive flag, and no critical
\* signature, was assessed high
C5_Witness ==
    /\ Assessed /\ DestructiveFlagIn /\ DangerousFirstToken /\ ~CriticalSignatureIn
    /\ call.result.level = "high"

\* the levels of the rules the command matches; the default rule applies when no
\* other rule does
MatchedLevels ==
    LET levels ==
            (IF CriticalSignatureIn THEN {"critical"} ELSE {})
            \cup (IF DangerousFirstToken
                    THEN {IF DestructiveFlagIn THEN "high" ELSE "medium"} ELSE {})
            \cup (IF ProtectedPathIn THEN {"high"} ELSE {})
            \cup (IF SuspiciousPatternIn THEN {"medium"} ELSE {})
            \cup (IF SafeFirstToken THEN {"safe"} ELSE {})
    IN  IF levels = {} THEN {"low"} ELSE levels

\* the order safe < low < medium < high < critical
Rank(level) ==
    CASE level = "safe" -> 0 [] level = "low" -> 1 [] level = "medium" -> 2
      [] level = "high" -> 3 [] level = "critical" -> 4

\* C6: the level assess_command_risk returns is the maximum of the levels of all
\* rules the command matches.
C6_MostSevereRuleWins ==
    Assessed =>
        /\ call.result.level \in MatchedLevels
        /\ \A level \in MatchedLevels : Rank(level) <= Rank(call.result.level)

\* the dangerous-command-family rule decided the last assessment
FamilyRuleFired ==
    /\ call.result.warnings # <<>>
    /\ call.result.warnings[1][1] = "Dangerous command"

\* C7 as stated: the dangerous-command-family rule fires (on a command without a
\* critical signature) exactly when the first token is the name of an entry of the
\* high_risk or medium_risk tier.
C7_FamilyIsHighAndMediumTiers ==
    (Assessed /\ ~CriticalSignatureIn) =>
        (FamilyRuleFired <=> FirstToken \in DangerousNames({"high_risk", "medium_risk"}))

\* C7 as amended: the dangerous-command-family rule fires (on a command without a
\* critical signature) exactly when the first token is the name of an entry of any
\* tier of dangerous_commands, the critical tier and tiers of other names included.
C7_FamilyIsEveryTier ==
    (Assessed /\ ~CriticalSignatureIn) =>
        (FamilyRuleFired <=> FirstToken \in DangerousNames(TierNames))

\* the family rule fired on a first token that only the critical tier or a tier of
\* another name lists
C7_Witness ==
    /\ Assessed /\ ~CriticalSignatureIn /\ FamilyRuleFired
    /\ FirstToken \notin DangerousNames({"high_risk", "medium_risk"})

\* the absolute form of p ends a directory: the separator is appended unless p is a
\* root
AsDirectory(p) ==
    LET sep == IF safety.is_windows THEN "\\" ELSE "/"
    IN  IF p # <<>> /\ p[Len(p)] = sep THEN p ELSE Append(p, sep)

\* the path is a protected directory or a descendant of one
EqualOrNested(path, cwd) ==
    \E i \in 1..Len(safety.protected_paths.v) :
        LET a == abspath(path, cwd, safety.is_windows)
            b == abspath(safety.protected_paths.v[i].v, cwd, safety.is_windows)
        IN  a = b \/ startswith(a, AsDirectory(b))

\* C8: is_path_protected(path) is true if and only if the absolute form of path is
\* equal to, or nested under, the absolute form of some protected directory.
C8_ProtectedIffEqualOrNested ==
    Guarded => (call.result <=> EqualOrNested(call.path, call.cwd))

\* C9: constructing the engine never fails because of the config source: no error
\* reaches the caller, and a source that is missing, unreadable or malformed leaves
\* the engine with the built-in default configuration.
C9_ConstructionNeverFails ==
    /\ raised = "none"
    /\ (safety.constructed /\ config_file.kind # "json") =>
           /\ safety.safe_commands = {T_dir, T_ls, T_pwd}
           /\ strs_of(safety.destructive_flags) = <<T_rf, T_sq>>

\* C10: under a supplied (non-empty) working directory that is_path_protected finds
\* protected: with safe_mode=true every command that is not blocked gets
\* requires_confirmation=true and a critical command stays blocked; with
\* safe_mode=false the warning is added and requires_confirmation is what the level
\* alone makes it.
C10_ProtectedWorkingDir ==
    (Validated /\ ProtectedWorkingDir) =>
        IF safety.safe_mode
          THEN /\ (AssessedLevel = "critical" => ~call.result.allowed)
               /\ (AssessedLevel # "critical" =>
                     call.result.allowed /\ call.result.requires_confirmation)
          ELSE /\ call.result.requires_confirmation = (AssessedLevel \in {"medium", "high"})
               /\ call.result.warnings[Len(call.result.warnings)] =
                     <<"Working directory is in protected system path", call.working_dir.v>>

\* a safe command was validated in safe mode under a protected working directory and
\* needs confirmation
C10_Witness ==
    /\ Validated /\ ProtectedWorkingDir /\ safety.safe_mode
    /\ AssessedLevel = "safe"
    /\ call.result.requires_confirmation


\* the last call was of get_safe_alternatives, of create_backup_recommendation
Advised == call.op = "get_safe_alternatives"
BackupAsked == call.op = "create_backup_recommendation"

\* the command of the last call matches the safe rule and no rule before it
OnlySafeRule ==
    /\ SafeFirstToken
    /\ ~CriticalSignatureIn /\ ~DangerousFirstToken
    /\ ~ProtectedPathIn /\ ~SuspiciousPatternIn

\* C13: a command whose first token is a safe command and that matches no critical,
\* dangerous-family, protected-path or suspicious-pattern rule is assessed safe with
\* no warnings, and validate_command, when the working directory is not a protected
\* one, allows it without confirmation.
C13_SafeCommandsPass ==
    /\ (Assessed /\ OnlySafeRule) =>
           /\ call.result.level = "safe"
           /\ call.result.warnings = <<>>
    /\ (Validated /\ OnlySafeRule /\ ~ProtectedWorkingDir) =>
           /\ call.result.allowed
           /\ ~call.result.requires_confirmation
           /\ call.result.risk_level = "safe"

\* a safe command of several words was validated under a supplied working directory
\* that is not protected
C13_Witness ==
    /\ Validated /\ OnlySafeRule /\ ~ProtectedWorkingDir
    /\ truthy(call.working_dir)
    /\ Len(split(Normalised)) > 1
    /\ call.result.allowed /\ ~call.result.requires_confirmation

\* the command of the last call is empty or made of blanks only
BlankCommand == strip(call.command) = <<>>

\* the dangerous-command signatures and the protected paths are non-empty strings
NonEmptySignaturesAndPaths ==
    /\ <<>> \notin TierEntries(TierNames)
    /\ \A i \in 1..Len(safety.protected_paths.v) : safety.protected_paths.v[i].v # <<>>

\* C14 as stated: under a configuration whose signatures and protected paths are
\* non-empty strings, an empty or whitespace-only command is assessed low with no
\* warnings.
C14_BlankCommandIsLow ==
    (Assessed /\ BlankCommand /\ NonEmptySignaturesAndPaths) =>
        /\ call.result.level = "low"
        /\ call.result.warnings = <<>>

\* C14 as amended: under a configuration whose signatures and protected paths are
\* non-empty strings, an empty or whitespace-only command is assessed with no
\* warnings, low if the safe-command names are non-empty strings too, and safe if
\* the empty string is a safe-command name.
C14_BlankCommandIsLowUnlessSafeName ==
    (Assessed /\ BlankCommand /\ NonEmptySignaturesAndPaths) =>
        /\ call.result.level = IF <<>> \in safety.safe_commands THEN "safe" ELSE "low"
        /\ call.result.warnings = <<>>

\* a command made of blanks was assessed low
C14_Witness ==
    /\ Assessed /\ BlankCommand /\ NonEmptySignaturesAndPaths
    /\ call.command # <<>>
    /\ <<>> \notin safety.safe_commands
    /\ call.result.level = "low"

\* the engine as the constructor made it
Fresh == __init__(safety.safe_mode, config_file, platform_system).val

GenericFallback == <<"Review command carefully", "Consider read-only alternatives">>

\* the tokens of the remediation table
TableTokens == { alternatives[i][1] : i \in 1..Len(alternatives) }

\* C16: get_safe_alternatives returns the remediation-table entry of the command's
\* lower-cased first token when the table has one and the generic two-item fallback
\* otherwise (unknown token, empty or blank command); the result is never empty.
C16_AlternativesByFirstToken ==
    Advised =>
        /\ call.result # <<>>
        /\ FirstToken \in TableTokens =>
               \E i \in 1..Len(alternatives) :
                   alternatives[i][1] = FirstToken /\ call.result = alternatives[i][2]
        /\ FirstToken \notin TableTokens => call.result = GenericFallback

\* a command typed in capitals got the table entry of its lower-cased first token
C16_Witness ==
    /\ Advised
    /\ FirstToken \in TableTokens
    /\ first_word_of(strip(call.command)) \notin TableTokens
    /\ call.result # GenericFallback

\* the command text, lower-cased, contains a destructive verb
DestructiveVerbIn ==
    \E verb \in { <<"d", "e", "l">>, <<"r", "m">>, <<"f", "o", "r", "m", "a", "t">>,
                  <<"r", "m", "d", "i", "r">>, <<"r", "d">> } :
        contains(lower(call.command), verb)

\* C17: create_backup_recommendation returns a suggestion exactly when the
\* lower-cased command contains one of del, rm, format, rmdir, rd; the suggestion is
\* the restore-point one on Windows and the mirrored-copy one elsewhere, whatever
\* safe_mode and the risk assessment are.
C17_BackupIffDestructiveVerb ==
    BackupAsked =>
        call.result =
            IF DestructiveVerbIn
              THEN IF lower(platform_system) = T_windows_lower
                     THEN "Consider creating a system restore point: 'rstrui.exe'"
                     ELSE "Consider creating a backup: 'rsync -av /source/ /backup/'"
              ELSE NoRecommendation

\* with safe mode off, a command in capitals that is assessed low got a suggestion
C17_Witness ==
    /\ BackupAsked /\ DestructiveVerbIn
    /\ ~contains(call.command, <<"r", "m">>)
    /\ ~safety.safe_mode
    /\ AssessedLevel = "low"
    /\ call.result # NoRecommendation

\* C18: in every result of assess_command_risk the warnings are empty only when the
\* level is safe or low: a medium, high or critical assessment carries a warning.
C18_WarningsUnlessSafeOrLow ==
    Assessed => (call.result.warnings = <<>> => call.result.level \in {"safe", "low"})

\* a medium assessment with its warning
C18_Witness ==
    /\ Assessed /\ call.result.level = "medium"
    /\ Len(call.result.warnings) = 1


\* the last operation of the host was execute_command, a turn of watch
Executed == call.op = "execute_command"
Watched == call.op = "watch"

\* what the engine says of the command and working directory of the last operation
HostValidation == validate_command(safety, call.command, call.working_dir, call.cwd)

\* the last operation ran its command in the shell, once, and nothing else
Ran == shell = << [command |-> call.command, cwd |-> call.working_dir] >>

\* C11: execute_command runs the command in the shell if and only if force is set or
\* the validation allowed it without confirmation; a blocked command returns
\* return_code -1 with blocked=True, a paused one return_code -2 with
\* requires_confirmation=True, and neither was run.
C11_RunsIffForcedOrCleared ==
    Executed =>
        /\ Ran <=> (call.force
                    \/ (HostValidation.allowed /\ ~HostValidation.requires_confirmation))
        /\ ~Ran => shell = <<>>
        /\ (~call.force /\ ~HostValidation.allowed) =>
               /\ call.result.return_code = -1
               /\ "blocked" \in DOMAIN call.result /\ call.result.blocked
               /\ shell = <<>>
        /\ (~call.force /\ HostValidation.allowed /\ HostValidation.requires_confirmation) =>
               /\ call.result.return_code = -2
               /\ "requires_confirmation" \in DOMAIN call.result
               /\ call.result.requires_confirmation
               /\ shell = <<>>

\* a command the validation blocks was run under force
C11_Witness ==
    /\ Executed /\ call.force /\ ~HostValidation.allowed
    /\ Ran
    /\ "blocked" \notin DOMAIN call.result

\* C12: on an agent built with safe_mode=False, execute_command without force runs
\* every command in the shell; none is blocked or paused for confirmation.
C12_UnsafeModeRunsEverything ==
    (Executed /\ ~agent.safe_mode /\ ~call.force) =>
        /\ Ran
        /\ "blocked" \notin DOMAIN call.result
        /\ "requires_confirmation" \notin DOMAIN call.result

\* C19: conversation_history holds at most 20 interactions, and they are the most
\* recently added ones in the order they were added: of the interactions 1..clock
\* recorded so far, the last min(20, clock), by rising timestamp.
C19_MemoryKeepsLast20 ==
    agent.constructed =>
        LET kept == IF clock < MemoryLimit THEN clock ELSE MemoryLimit
        IN  /\ Len(conversation_history) = kept
            /\ \A i \in 1..kept : conversation_history[i].timestamp = clock - kept + i

\* a question was answered and recorded, and the oldest
\* interactions have been dropped
C19_Witness ==
    /\ call # NoCall /\ call.op = "answer_question"
    /\ Len(conversation_history) = MemoryLimit
    /\ conversation_history[1].timestamp = 5
    /\ conversation_history[MemoryLimit].timestamp = clock

\* the lines of questions.txt, those whose stripped text starts with ===, and the
\* first of them
FileLines == splitsep(questions.content, {"\n"})
DelimiterLines ==
    { i \in 1..Len(FileLines) : startswith(strip(FileLines[i]), <<"=", "=", "=">>) }
FirstDelimiter == CHOOSE i \in DelimiterLines : \A j \in DelimiterLines : i <= j

\* the text of the lines before the first delimiter line, stripped
QuestionText ==
    strip(join(SubSeq(FileLines, 1,
                      IF DelimiterLines = {} THEN Len(FileLines) ELSE FirstDelimiter - 1),
               <<"\n">>))

\* C20: watch processes a changed questions.txt in force mode if and only if the
\* first line whose stripped text starts with === starts with ===!; the question is
\* the text of the lines before that line; an empty question runs nothing; in force
\* mode the command is run without validation, and otherwise only if the validation
\* clears it.
C20_ForceIffFirstDelimiterIsForce ==
    Watched =>
        /\ call.force <=>
               /\ DelimiterLines # {}
               /\ startswith(strip(FileLines[FirstDelimiter]), <<"=", "=", "=", "!">>)
        /\ call.question = QuestionText
        /\ call.asked <=> QuestionText # <<>>
        /\ ~call.asked => shell = <<>>
        /\ (call.asked /\ call.command # T_unknown) =>
               (Ran <=> (call.force
                         \/ (HostValidation.allowed
                             /\ ~HostValidation.requires_confirmation)))

\* a question above a ===! line was processed in force mode, and a command the
\* validation blocks was run
C20_Witness ==
    /\ Watched /\ call.asked /\ call.force
    /\ FirstDelimiter > 1
    /\ call.command # T_unknown
    /\ ~HostValidation.allowed
    /\ Ran

(***************************************************************************)
(* execute_task.                                                           *)
(***************************************************************************)
TaskRun == call.op = "execute_task"
ComplexTask == call.result.task_type = "complex"

\* C21: execute_task calls execute_command exactly once per task, without force and
\* with the original task text, so that at most one command is started and it is
\* the task; for a complex task the plan is not empty, the results have one entry
\* per step of the plan, every step but the last is recorded as
\* {step, status: 'planned'}, and the call is made at the last step, whose entry is
\* the result of execute_command
C21_OneCallPerTask ==
    TaskRun =>
      /\ Len(call.calls) = 1
      /\ call.calls[1].command = call.task
      /\ ~call.calls[1].force
      /\ Len(shell) <= 1
      /\ \A k \in 1..Len(shell) : shell[k].command = call.task
      /\ ComplexTask =>
           /\ call.result.plan # <<>>
           /\ Len(call.result.results) = Len(call.result.plan)
           /\ \A i \in 1..(Len(call.result.plan) - 1) :
                call.result.results[i] = [step |-> call.result.plan[i], status |-> "planned"]
           /\ call.calls[1].step = Len(call.result.plan)
           /\ "command" \in DOMAIN call.result.results[Len(call.result.plan)]
           /\ call.result.results[Len(call.result.plan)].command = call.task

\* a complex task whose plan of three steps was read from the model's reply, and
\* whose command was started at the last one
C21_Witness ==
    /\ TaskRun
    /\ ComplexTask
    /\ Len(call.result.plan) = 3
    /\ call.result.plan[1] = T_ls
    /\ call.result.results[2] = [step |-> T_pwd, status |-> "planned"]
    /\ shell = << [command |-> call.task, cwd |-> call.working_dir] >>

====
